---- MODULE Spec2Model ----
(***************************************************************************)
(* Model of server/src/controllers/courseController.ts: the purchase       *)
(* workflow (createTransaction), the payment intent issuer                 *)
(* (createStripePaymentIntent) and the course mutations that run           *)
(* concurrently with purchases (updateCourse, deleteCourse, createCourse). *)
(*                                                                         *)
(* Every `await` of a handler is one atomic step: the effect of the        *)
(* awaited store call together with the synchronous code that follows it   *)
(* up to the next await.  A store call may return, throw, or never return. *)
(***************************************************************************)
EXTENDS Integers, Sequences, FiniteSets, TLC

\* ---------------------------------------------------------------- bounds
\* the clock takes the values 0..MaxTime
MaxTime == 1
\* createStripePaymentIntent is called with the amounts -MaxPay..MaxPay
MaxPay == 60

\* concurrent POST /transactions requests (slots are interchangeable: slot 2
\* is only used once slot 1 is)
Requests == {1, 2}
UserIds == {"u1", "u2"}
\* "c1" is in the catalog initially, "c2" is not
CourseIds == {"c1", "c2"}
TransactionIds == {"t1", "t2"}
Amounts == {10, 20}

\* ------------------------------------------------------- course structure
Chapter(id) == [chapterId |-> id, title |-> "title", type |-> "Video"]
Section(id, chs) == [sectionId |-> id, chapters |-> chs]

\* Two sections with one and two chapters (the structure of spec section 8).
SectionsA == << Section("s1", << Chapter("ch1") >>),
                Section("s2", << Chapter("ch2"), Chapter("ch3") >>) >>
\* A revised structure: one section, one chapter.
SectionsB == << Section("s9", << Chapter("ch9") >>) >>

VARIABLES
  courses,        \* catalog store: courseId -> course record (DOMAIN = stored ids)
  transactions,   \* transaction store: key -> transaction record
  progress,       \* progress store: <<userId, courseId>> -> progress record
  now,            \* the wall clock read by new Date()
  pc,             \* per request: position in createTransaction
  body,           \* per request: req.body
  course,         \* per request: the local `course` (result of Course.get)
  newTransaction, \* per request: the local `newTransaction`
  initialProgress,\* per request: the local `initialProgress`
  res,            \* per request: the response sent
  written,        \* per request: the store writes this call has completed
  created,        \* per request: the completed writes that added a new entry
  objects,        \* object store: the keys that have been put
  upd,            \* the updateCourse handler: position, request, response
  pay,            \* the createStripePaymentIntent handler: position, amount, response
  del,            \* the deleteCourse handler: position, request, response
  crt,            \* the createCourse handler: position, request, response
  products,       \* payment gateway: the products created
  prices,         \* payment gateway: the prices created
  attempts        \* per request: the store writes this call has issued, in order

vars == << courses, transactions, progress, now, pc, body, course,
           newTransaction, initialProgress, res, written, created, objects, upd,
           pay, del, crt, products, prices, attempts >>

stores == << courses, transactions, progress >>
locals == << body, course, newTransaction, initialProgress >>
purchase == << pc, locals, res, written, created, attempts >>
gateway == << products, prices >>
rest == << del, crt, gateway >>
catalog == << objects, upd, pay, rest >>

\* ------------------------------------------------------------ JS values
Undefined == [undefined |-> TRUE]
NoResponse == [status |-> 0]
NoBody == [empty |-> TRUE]

\* ---------------------------------------------- createTransaction helpers
\* the guard of line 177 left out
CourseNotFoundNoGuard(doc) == FALSE

\* line 177: if (!course)
CourseNotFound(doc) == doc = Undefined

\* Course.get(courseId): the stored document, or undefined
CourseGet(id) == IF id \in DOMAIN courses THEN courses[id] ELSE Undefined

\* lines 182-189: new Transaction({...})
NewTransaction(b, t) ==
  [ dateTime |-> t,
    userId |-> b.userId,
    courseId |-> b.courseId,
    transactionId |-> b.transactionId,
    amount |-> b.amount,
    paymentProvider |-> b.paymentProvider ]

\* the last chapter of a section is dropped and the flags start as true
MapChaptersOffByOne(chs) ==
  [ i \in 1..(Len(chs) - 1) |-> [chapterId |-> chs[i].chapterId, completed |-> TRUE] ]

\* lines 199-202: section.chapters.map(chapter => ({chapterId, completed: false}))
MapChapters(chs) ==
  [ i \in 1..Len(chs) |-> [chapterId |-> chs[i].chapterId, completed |-> FALSE] ]

\* lines 197-203: course.sections.map(section => ({sectionId, chapters}))
MapSections(secs) ==
  [ i \in 1..Len(secs) |->
      [sectionId |-> secs[i].sectionId, chapters |-> MapChapters(secs[i].chapters)] ]

\* lines 192-205: new UserCourseProgress({...})
InitialProgress(b, crs, t) ==
  [ userId |-> b.userId,
    courseId |-> b.courseId,
    enrollmentDate |-> t,
    overallProgress |-> 0,
    sections |-> MapSections(crs.sections),
    lastAccessedTimestamp |-> t ]

\* line 197: course.sections.map throws a TypeError when the document has no
\* sections attribute
SectionsMissing(crs) == "sections" \notin DOMAIN crs

\* The key under which the transaction store files a record.
TransactionKey(t) == t.transactionId
\* The composite key of the progress store.
ProgressKey(p) == << p.userId, p.courseId >>

\* document.save(): an unconditional put under the document's key
Put(store, key, item) ==
  [ k \in DOMAIN store \cup {key} |-> IF k = key THEN item ELSE store[k] ]

\* the transaction is built but never saved
TransactionSaveSkipped(store, t) == store

\* line 190: newTransaction.save()
TransactionSave(store, t) == Put(store, TransactionKey(t), t)

\* line 206: initialProgress.save()
ProgressSave(store, p) == Put(store, ProgressKey(p), p)

\* the enrollment written as a plain attribute ({enrollments: [{userId}]}
\* without $ADD): the collection is replaced
CourseSetEnrollment(store, id, u) ==
  LET old == IF id \in DOMAIN store THEN store[id] ELSE [id |-> id]
      new == [ f \in DOMAIN old \cup {"enrollments"} |->
                 IF f = "enrollments" THEN << [userId |-> u] >> ELSE old[f] ]
  IN  [ k \in DOMAIN store \cup {id} |-> IF k = id THEN new ELSE store[k] ]

\* lines 208-215: Course.update({id}, {$ADD: {enrollments: [{userId}]}}):
\* an update expression evaluated by the store on the stored item; the item
\* is created when the key is absent.
CourseAddEnrollment(store, id, u) ==
  LET old == IF id \in DOMAIN store THEN store[id] ELSE [id |-> id]
      enr == IF "enrollments" \in DOMAIN old THEN old.enrollments ELSE << >>
      new == [ f \in DOMAIN old \cup {"enrollments"} |->
                 IF f = "enrollments" THEN Append(enr, [userId |-> u]) ELSE old[f] ]
  IN  [ k \in DOMAIN store \cup {id} |-> IF k = id THEN new ELSE store[k] ]

\* ---------------------------------------- createStripePaymentIntent helpers
\* req.body.amount: absent, null, or a number
JsNumber(n) == [type |-> "number", value |-> n]
JsUndefined == [type |-> "undefined"]
JsNull == [type |-> "null"]
PayAmounts == {JsUndefined, JsNull} \cup { JsNumber(n) : n \in (0 - MaxPay)..MaxPay }

\* line 148: the minimum charge
MinCharge == 50

\* line 147: !amount
Falsy(a) == a.type \in {"undefined", "null"} \/ (a.type = "number" /\ a.value = 0)

\* line 147: amount <= 0 (null converts to 0, undefined to NaN)
NotPositive(a) ==
  \/ a.type = "null"
  \/ a.type = "number" /\ a.value <= 0

\* only the falsy test is made: a negative amount goes to the gateway
PaymentAmountFalsyOnly(a) == IF Falsy(a) THEN JsNumber(MinCharge) ELSE a

\* lines 145-149: let { amount } = req.body; if (!amount || amount <= 0) amount = 50
PaymentAmount(a) == IF Falsy(a) \/ NotPositive(a) THEN JsNumber(MinCharge) ELSE a

PayIdle == [pc |-> "idle"]
DelIdle == [pc |-> "idle"]
CrtIdle == [pc |-> "idle"]

\* --------------------------------------------------- updateCourse helpers
\* request bodies of PUT /courses/:courseId
Patches == { [title |-> "retitled"], [sections |-> SectionsB], [enrollments |-> << >>] }

UpdIdle == [pc |-> "idle"]

\* line 97: the object key of the uploaded image
ImageKey(id) == << "courses", id, "image.png" >>
\* line 102: the public URL of the uploaded image
ImageUrl(id) == << "https", "bucket", "s3", "region", "amazonaws.com" >> \o ImageKey(id)

\* the URL is computed but not put into the updates
WithImageUrlDropped(updates, id) == updates

\* line 102: updates.imageUrl = ...
WithImageUrl(updates, id) ==
  [ f \in DOMAIN updates \cup {"imageUrl"} |->
      IF f = "imageUrl" THEN ImageUrl(id) ELSE updates[f] ]

\* line 104: Course.update({id}, updates): the attributes of `updates` are set
\* on the stored item; the item is created when the key is absent.
CourseUpdateSet(store, id, updates) ==
  LET old == IF id \in DOMAIN store THEN store[id] ELSE [id |-> id]
      new == [ f \in DOMAIN old \cup DOMAIN updates |->
                 IF f \in DOMAIN updates THEN updates[f] ELSE old[f] ]
  IN  [ k \in DOMAIN store \cup {id} |-> IF k = id THEN new ELSE store[k] ]

\* the number of records in a store
Entries(store) == Cardinality(DOMAIN store)

\* the enrollment collection of course `id` (empty when the course or the
\* attribute is absent)
Enrollments(store, id) ==
  IF id \in DOMAIN store /\ "enrollments" \in DOMAIN store[id]
    THEN store[id].enrollments ELSE << >>

\* ----------------------------------------------------------------- Init
\* a course as createCourse stores it (lines 35-41): no enrollments yet
InitialCourse(id) ==
  [id |-> id, title |-> "title", teacherName |-> "teacher", price |-> 10,
   sections |-> SectionsA]

Init ==
  /\ courses = [ id \in {"c1"} |-> InitialCourse(id) ]
  /\ transactions = << >>
  /\ progress = << >>
  /\ now = 0
  /\ pc = [ r \in Requests |-> "idle" ]
  /\ body = [ r \in Requests |-> NoBody ]
  /\ course = [ r \in Requests |-> Undefined ]
  /\ newTransaction = [ r \in Requests |-> Undefined ]
  /\ initialProgress = [ r \in Requests |-> Undefined ]
  /\ res = [ r \in Requests |-> NoResponse ]
  /\ written = [ r \in Requests |-> {} ]
  /\ created = [ r \in Requests |-> {} ]
  /\ attempts = [ r \in Requests |-> << >> ]
  /\ del = DelIdle
  /\ crt = CrtIdle
  /\ products = {}
  /\ prices = {}
  /\ objects = {}
  /\ upd = UpdIdle
  /\ pay = PayIdle

\* ------------------------------------------------------------- actions
\* new Date() advances between steps
Tick ==
  /\ now < MaxTime
  /\ now' = now + 1
  /\ UNCHANGED << stores, purchase, catalog >>

\* line 173: a POST arrives; the handler destructures req.body and issues
\* Course.get
Receive(r) ==
  /\ pc[r] = "idle"
  /\ \A q \in Requests : q < r => pc[q] # "idle"
  /\ \E u \in UserIds, c \in CourseIds, t \in TransactionIds, a \in Amounts :
       body' = [body EXCEPT ![r] =
                  [userId |-> u, courseId |-> c, transactionId |-> t,
                   amount |-> a, paymentProvider |-> "stripe"]]
  /\ pc' = [pc EXCEPT ![r] = "get"]
  /\ UNCHANGED << stores, now, course, newTransaction, initialProgress, res, written,
                  created, attempts, catalog >>

\* lines 176, 190, 206, 208: the awaits of createTransaction
Awaits == {"get", "saveTransaction", "saveProgress", "update"}

\* the handlers serialised behind a lock: a handler resumes only while no
\* other request is in flight
ResumesSerialised(r, at) ==
  /\ pc[r] = at
  /\ \A q \in Requests \ {r} : pc[q] \in {"idle", "done"}

\* the handler suspended at the await `at` resumes when its own call settles;
\* nothing else is waited for
Resumes(r, at) == pc[r] = at

\* a catch block that ends the call without sending anything
RespondNothing(r) ==
  /\ res' = res
  /\ pc' = [pc EXCEPT ![r] = "done"]

\* lines 224-226: catch (error) -> 500
Respond500(r) ==
  /\ res' = [res EXCEPT ![r] = [status |-> 500]]
  /\ pc' = [pc EXCEPT ![r] = "done"]

\* a downstream call that never returns: the handler stays suspended at its await
Hang(r) ==
  /\ pc[r] \in Awaits
  /\ pc' = [pc EXCEPT ![r] = "hung"]
  /\ UNCHANGED << stores, now, locals, res, written, created, attempts, catalog >>

\* a catch block that compensates: the request's transaction is deleted
ThrowWithRollback(r) ==
  /\ \E at \in Awaits : pc[r] = at
  /\ Respond500(r)
  /\ transactions' =
       [ k \in DOMAIN transactions \ {body[r].transactionId} |-> transactions[k] ]
  /\ UNCHANGED << courses, progress, now, locals, written, created, attempts,
                  catalog >>

\* a failed Transaction save is swallowed and the handler carries on with
\* the progress record
ThrowSwallowed(r) ==
  /\ \E at \in Awaits : pc[r] = at
  /\ IF pc[r] = "saveTransaction"
       THEN /\ initialProgress' =
                 [initialProgress EXCEPT ![r] = InitialProgress(body[r], course[r], now)]
            /\ pc' = [pc EXCEPT ![r] = "saveProgress"]
            /\ attempts' = [attempts EXCEPT ![r] = Append(@, "progress")]
            /\ UNCHANGED << res, body, course, newTransaction >>
       ELSE /\ Respond500(r)
            /\ UNCHANGED << locals, attempts >>
  /\ UNCHANGED << stores, now, written, created, catalog >>

\* a downstream call that throws: control goes to the catch block
Throw(r) ==
  /\ \E at \in Awaits : Resumes(r, at)
  /\ Respond500(r)
  /\ UNCHANGED << stores, now, locals, written, created, attempts, catalog >>

\* lines 176-190: Course.get returns; 404 when absent, otherwise build the
\* transaction and issue its save
GetReturns(r) ==
  /\ Resumes(r, "get")
  /\ LET doc == CourseGet(body[r].courseId) IN
       /\ course' = [course EXCEPT ![r] = doc]
       /\ IF CourseNotFound(doc)
            THEN /\ res' = [res EXCEPT ![r] = [status |-> 404]]
                 /\ pc' = [pc EXCEPT ![r] = "done"]
                 /\ UNCHANGED << newTransaction, attempts >>
            ELSE /\ newTransaction' =
                      [newTransaction EXCEPT ![r] = NewTransaction(body[r], now)]
                 /\ pc' = [pc EXCEPT ![r] = "saveTransaction"]
                 /\ attempts' = [attempts EXCEPT ![r] = Append(@, "transaction")]
                 /\ UNCHANGED res
  /\ UNCHANGED << stores, now, body, initialProgress, written, created, catalog >>

\* lines 190-206: the transaction is stored; build the progress record (a
\* TypeError when course.sections is undefined) and issue its save
TransactionSaved(r) ==
  /\ Resumes(r, "saveTransaction")
  /\ transactions' = TransactionSave(transactions, newTransaction[r])
  /\ written' = [written EXCEPT ![r] = @ \cup {"transaction"}]
  /\ created' = [created EXCEPT ![r] =
                   IF Entries(transactions') = Entries(transactions) + 1
                     THEN @ \cup {"transaction"} ELSE @]
  /\ IF SectionsMissing(course[r])
       THEN /\ Respond500(r)
            /\ UNCHANGED << initialProgress, attempts >>
       ELSE /\ initialProgress' =
                 [initialProgress EXCEPT ![r] = InitialProgress(body[r], course[r], now)]
            /\ pc' = [pc EXCEPT ![r] = "saveProgress"]
            /\ attempts' = [attempts EXCEPT ![r] = Append(@, "progress")]
            /\ UNCHANGED res
  /\ UNCHANGED << courses, progress, now, body, course, newTransaction, catalog >>

\* lines 206-215: the progress record is stored; issue the enrollment update
ProgressSaved(r) ==
  /\ Resumes(r, "saveProgress")
  /\ progress' = ProgressSave(progress, initialProgress[r])
  /\ written' = [written EXCEPT ![r] = @ \cup {"progress"}]
  /\ created' = [created EXCEPT ![r] =
                   IF Entries(progress') = Entries(progress) + 1
                     THEN @ \cup {"progress"} ELSE @]
  /\ pc' = [pc EXCEPT ![r] = "update"]
  /\ attempts' = [attempts EXCEPT ![r] = Append(@, "enrollment")]
  /\ UNCHANGED << courses, transactions, now, locals, res, catalog >>

\* lines 208-223: the enrollment is added; answer with both documents
EnrollmentAdded(r) ==
  /\ Resumes(r, "update")
  /\ courses' = CourseAddEnrollment(courses, body[r].courseId, body[r].userId)
  /\ written' = [written EXCEPT ![r] = @ \cup {"enrollment"}]
  /\ created' = [created EXCEPT ![r] =
                   IF Len(Enrollments(courses', body[r].courseId))
                        = Len(Enrollments(courses, body[r].courseId)) + 1
                     THEN @ \cup {"enrollment"} ELSE @]
  /\ res' = [res EXCEPT ![r] =
               [status |-> 200, transaction |-> newTransaction[r],
                courseProgress |-> initialProgress[r]]]
  /\ pc' = [pc EXCEPT ![r] = "done"]
  /\ UNCHANGED << transactions, progress, now, locals, attempts, catalog >>

createTransaction(r) ==
  \/ GetReturns(r)
  \/ TransactionSaved(r)
  \/ ProgressSaved(r)
  \/ EnrollmentAdded(r)
  \/ Throw(r)

\* ------------------------------------------------------- updateCourse
\* lines 92-101: a PUT arrives; with a file attached the upload is issued
\* first, otherwise Course.update is issued at once
UpdateReceive ==
  /\ upd.pc = "idle"
  /\ \E id \in CourseIds, p \in Patches, f \in BOOLEAN :
       upd' = [pc |-> IF f THEN "upload" ELSE "write",
               courseId |-> id, updates |-> p, file |-> f]
  /\ UNCHANGED << stores, now, purchase, objects, pay, rest >>

\* lines 101-104: the upload is stored; the URL is merged into the updates
\* and Course.update is issued
UploadDone ==
  /\ upd.pc = "upload"
  /\ objects' = objects \cup {ImageKey(upd.courseId)}
  /\ upd' = [upd EXCEPT !.pc = "write",
                        !.updates = WithImageUrl(upd.updates, upd.courseId)]
  /\ UNCHANGED << stores, now, purchase, pay, rest >>

\* lines 104-105: the catalog write is applied; answer with the course
UpdateWritten ==
  /\ upd.pc = "write"
  /\ courses' = CourseUpdateSet(courses, upd.courseId, upd.updates)
  /\ upd' = [upd EXCEPT !.pc = "done"] @@ [status |-> 200]
  /\ UNCHANGED << transactions, progress, now, purchase, objects, pay, rest >>

\* lines 106-108: the upload or the catalog write throws
UpdateThrow ==
  /\ upd.pc \in {"upload", "write"}
  /\ upd' = [upd EXCEPT !.pc = "done"] @@ [status |-> 500]
  /\ UNCHANGED << stores, now, purchase, objects, pay, rest >>

updateCourse ==
  \/ UpdateReceive
  \/ UploadDone
  \/ UpdateWritten
  \/ UpdateThrow

\* ------------------------------------------- createStripePaymentIntent
\* lines 145-159: a POST arrives; the amount is defaulted and the gateway is
\* called with it
PayReceive ==
  /\ pay.pc = "idle"
  /\ \E a \in PayAmounts :
       pay' = [pc |-> "create", requested |-> a, amount |-> PaymentAmount(a)]
  /\ UNCHANGED << stores, now, purchase, objects, upd, rest >>

\* lines 161-166: the gateway returns the intent
PayReturns ==
  /\ pay.pc = "create"
  /\ pay' = [pay EXCEPT !.pc = "done"] @@ [status |-> 200, intent |-> pay.amount]
  /\ UNCHANGED << stores, now, purchase, objects, upd, rest >>

\* lines 167-169: the gateway call throws
PayThrows ==
  /\ pay.pc = "create"
  /\ pay' = [pay EXCEPT !.pc = "done"] @@ [status |-> 500]
  /\ UNCHANGED << stores, now, purchase, objects, upd, rest >>

createStripePaymentIntent ==
  \/ PayReceive
  \/ PayReturns
  \/ PayThrows

\* ------------------------------------------------------- deleteCourse
\* line 61: Course.delete(id): the item is removed (no effect when absent)
CourseDelete(store, id) == [ k \in DOMAIN store \ {id} |-> store[k] ]

\* lines 59-61: a DELETE arrives and Course.delete is issued
DeleteReceive ==
  /\ del.pc = "idle"
  /\ \E id \in CourseIds : del' = [pc |-> "delete", courseId |-> id]
  /\ UNCHANGED << stores, now, purchase, objects, upd, pay, crt, gateway >>

\* lines 61-62: the item is removed; answer 204
DeleteDone ==
  /\ del.pc = "delete"
  /\ courses' = CourseDelete(courses, del.courseId)
  /\ del' = [del EXCEPT !.pc = "done"] @@ [status |-> 204]
  /\ UNCHANGED << transactions, progress, now, purchase, objects, upd, pay, crt,
                  gateway >>

\* lines 63-65: Course.delete throws
DeleteThrow ==
  /\ del.pc = "delete"
  /\ del' = [del EXCEPT !.pc = "done"] @@ [status |-> 500]
  /\ UNCHANGED << stores, now, purchase, objects, upd, pay, crt, gateway >>

deleteCourse ==
  \/ DeleteReceive
  \/ DeleteDone
  \/ DeleteThrow

\* ------------------------------------------------------- createCourse
\* request bodies of POST /courses: id may be absent, sections may be absent
NoId == "none"
Titles == {"algebra", "biology"}
Prices == {10, 25}
CreateBodies ==
  { [id |-> i, title |-> t, teacherName |-> "teacher", price |-> p] :
      i \in CourseIds \cup {NoId}, t \in Titles, p \in Prices }
  \cup
  { [id |-> i, title |-> t, teacherName |-> "teacher", price |-> p, sections |-> SectionsB] :
      i \in CourseIds \cup {NoId}, t \in Titles, p \in Prices }

\* line 36: new Date().toISOString() for the instants of the clock
ToISOString(t) ==
  << "1970-01-01T00:00:00.000Z", "1970-01-01T00:00:00.001Z",
     "1970-01-01T00:00:00.002Z", "1970-01-01T00:00:00.003Z" >>[t + 1]

\* line 36: req.body.id || new Date().toISOString()
CourseId(b, t) == IF b.id = NoId THEN ToISOString(t) ELSE b.id

\* lines 35-41: the document handed to Course.create (an absent sections
\* attribute stays absent)
CourseDocument(b, t) ==
  [ f \in DOMAIN b |-> IF f = "id" THEN CourseId(b, t) ELSE b[f] ]

\* lines 43-46: the product stripe.products.create registers
Product(title) ==
  [id |-> << "prod", title >>, name |-> title, description |-> << "Course: ", title >>]

\* lines 47-51: the price stripe.prices.create registers
Price(product, price) ==
  [product |-> product.id, unit_amount |-> price * 100, currency |-> "usd"]

\* lines 34-41: a POST arrives; the document is built and Course.create issued
CreateReceive ==
  /\ crt.pc = "idle"
  /\ \E b \in CreateBodies :
       crt' = [pc |-> "create", body |-> b, course |-> CourseDocument(b, now),
               persisted |-> FALSE]
  /\ UNCHANGED << stores, now, purchase, objects, upd, pay, del, gateway >>

\* lines 35-46: Course.create stores the document (it throws when the id is
\* already stored); stripe.products.create is issued
CourseCreated ==
  /\ crt.pc = "create"
  /\ IF crt.course.id \in DOMAIN courses
       THEN /\ crt' = [crt EXCEPT !.pc = "done"] @@ [status |-> 500]
            /\ UNCHANGED courses
       ELSE /\ courses' = Put(courses, crt.course.id, crt.course)
            /\ crt' = [crt EXCEPT !.pc = "product", !.persisted = TRUE]
  /\ UNCHANGED << transactions, progress, now, purchase, objects, upd, pay, del,
                  gateway >>

\* lines 43-51: the product is registered; stripe.prices.create is issued
ProductCreated ==
  /\ crt.pc = "product"
  /\ products' = products \cup {Product(crt.body.title)}
  /\ crt' = [crt EXCEPT !.pc = "price"] @@ [product |-> Product(crt.body.title)]
  /\ UNCHANGED << stores, now, purchase, objects, upd, pay, del, prices >>

\* lines 47-53: the price is registered; answer 201 with course and price
PriceCreated ==
  /\ crt.pc = "price"
  /\ prices' = prices \cup {Price(crt.product, crt.body.price)}
  /\ crt' = [crt EXCEPT !.pc = "done"]
             @@ [status |-> 201, stripePrice |-> Price(crt.product, crt.body.price)]
  /\ UNCHANGED << stores, now, purchase, objects, upd, pay, del, products >>

\* lines 54-56: Course.create or a gateway call throws
CreateThrow ==
  /\ crt.pc \in {"create", "product", "price"}
  /\ crt' = [crt EXCEPT !.pc = "done"] @@ [status |-> 500]
  /\ UNCHANGED << stores, now, purchase, objects, upd, pay, del, gateway >>

createCourse ==
  \/ CreateReceive
  \/ CourseCreated
  \/ ProductCreated
  \/ PriceCreated
  \/ CreateThrow

\* ------------------------------------------------------ specifications
\* the purchase workflow: concurrent createTransaction calls
Next ==
  \/ Tick
  \/ \E r \in Requests : Receive(r)
  \/ \E r \in Requests : createTransaction(r)

Spec == Init /\ [][Next]_vars

\* purchases running concurrently with a course update
NextUpdate ==
  \/ \E r \in Requests : Receive(r)
  \/ \E r \in Requests : createTransaction(r)
  \/ updateCourse

UpdateSpec == Init /\ [][NextUpdate]_vars

\* the payment intent issuer
NextPay == createStripePaymentIntent

PaySpec == Init /\ [][NextPay]_vars

\* purchases whose downstream calls may never return; a call that does
\* return lets its handler continue
NextHang ==
  \/ \E r \in Requests : Receive(r)
  \/ \E r \in Requests : createTransaction(r)
  \/ \E r \in Requests : Hang(r)

\* purchases running concurrently with a course deletion
NextDelete ==
  \/ \E r \in Requests : Receive(r)
  \/ \E r \in Requests : createTransaction(r)
  \/ deleteCourse

DeleteSpec == Init /\ [][NextDelete]_vars

\* course creation (the default id is read from the clock)
NextCreate ==
  \/ Tick
  \/ createCourse

CreateSpec == Init /\ [][NextCreate]_vars

FairSpec ==
  /\ Init
  /\ [][NextHang]_vars
  /\ \A r \in Requests : WF_vars(createTransaction(r))

\* ------------------------------------------------------------------------
\* Properties
\* ------------------------------------------------------------------------
AllWrites == {"transaction", "progress", "enrollment"}
Responded(r, code) == pc[r] = "done" /\ res[r].status = code

\* the step in which request r's handler leaves the await `at`
Leaves(r, at) == pc[r] = at /\ pc'[r] # at

\* the lookup step of a request whose course is absent from the catalog
C1_NotFoundStep ==
  \A r \in Requests :
    (Leaves(r, "get") /\ pc'[r] # "hung" /\ res'[r].status # 500
       /\ body[r].courseId \notin DOMAIN courses)
    => /\ res'[r].status = 404
       /\ pc'[r] = "done"
       /\ UNCHANGED stores

\* C1: a purchase whose courseId resolves to no Course at the lookup answers
\* 404 and writes nothing: the lookup step that finds the course absent sends
\* 404, ends the call and leaves the three stores unchanged, and a call that
\* answered 404 has completed no write.
C1_NotFoundNoWrites ==
  /\ [](\A r \in Requests : res[r].status = 404 => pc[r] = "done" /\ written[r] = {})
  /\ [][C1_NotFoundStep]_vars

\* a 404 was answered while another purchase has written its records
C1_Witness ==
  \E r \in Requests :
    /\ Responded(r, 404)
    /\ body[r].courseId \notin DOMAIN courses
    /\ DOMAIN transactions # {} /\ DOMAIN progress # {}

\* C2: a purchase that returned success has added exactly one new
\* Transaction, one new UserCourseProgress and one new enrollment entry,
\* whatever purchases came before.
C2_SuccessAddsOneOfEach ==
  \A r \in Requests : Responded(r, 200) => created[r] = AllWrites

\* progress record p has, in order, one entry per section and per chapter of
\* secs, none completed, and overallProgress 0
Mirrors(p, secs) ==
  /\ p.overallProgress = 0
  /\ Len(p.sections) = Len(secs)
  /\ \A i \in 1..Len(secs) :
       /\ p.sections[i].sectionId = secs[i].sectionId
       /\ Len(p.sections[i].chapters) = Len(secs[i].chapters)
       /\ \A j \in 1..Len(secs[i].chapters) :
            /\ p.sections[i].chapters[j].chapterId = secs[i].chapters[j].chapterId
            /\ p.sections[i].chapters[j].completed = FALSE

C3_MirrorsStoredCourseStep ==
  \A r \in Requests :
    (Leaves(r, "saveProgress") /\ "progress" \in written'[r])
    => Mirrors(progress'[<< body[r].userId, body[r].courseId >>],
               courses[body[r].courseId].sections)

\* C3 (as claimed): the progress record persisted by a purchase mirrors the
\* section/chapter structure the Course has in the catalog when the record is
\* persisted, also when the Course is updated while the purchase is in
\* progress.
C3_MirrorsStoredCourse == [][C3_MirrorsStoredCourseStep]_vars

C3_MirrorsCourseReadStep ==
  \A r \in Requests :
    /\ (Leaves(r, "get") /\ pc'[r] = "saveTransaction")
         => course'[r] = courses[body[r].courseId]
    /\ (Leaves(r, "saveProgress") /\ "progress" \in written'[r])
         => /\ Mirrors(progress'[<< body[r].userId, body[r].courseId >>],
                       course[r].sections)
            /\ course'[r] = course[r]

\* C3 (amended): the progress record persisted by a purchase mirrors, in
\* order, the sections and chapters of the Course document the call read at
\* its lookup, every chapter not completed and overallProgress 0; the
\* document read is the catalog's at the moment of the lookup.
C3_MirrorsCourseRead == [][C3_MirrorsCourseReadStep]_vars

\* a progress record was persisted from a structure the catalog no longer has
C3_Witness ==
  \E r \in Requests :
    /\ pc[r] = "update"
    /\ "progress" \in written[r]
    /\ progress[<< body[r].userId, body[r].courseId >>] = initialProgress[r]
    /\ course[r].sections = SectionsA
    /\ courses[body[r].courseId].sections = SectionsB

\* the collection seq holds exactly the entries of set, each once, in any order
SameEntries(seq, set) ==
  /\ Len(seq) = Cardinality(set)
  /\ { seq[i] : i \in 1..Len(seq) } = set

C4_BothEnrolledState ==
  \A r, q \in Requests :
    (/\ r # q
     /\ Responded(r, 200) /\ Responded(q, 200)
     /\ body[r].courseId = body[q].courseId
     /\ body[r].userId # body[q].userId)
    => SameEntries(Enrollments(courses, body[r].courseId),
                   { [userId |-> body[r].userId], [userId |-> body[q].userId] })

C4_FailsOnlyOnThrow ==
  \A r \in Requests :
    (res[r].status # 500 /\ res'[r].status = 500) => Throw(r)

\* C4: two purchases by different users of the same existing course, in any
\* interleaving and with no downstream failure, both succeed and the course's
\* enrollment collection ends with exactly one entry for each of the two
\* users: no step answers 500 unless a downstream call threw, and when both
\* have answered 200 the collection holds both entries and nothing else.
C4_BothEnrolled ==
  /\ []C4_BothEnrolledState
  /\ [][C4_FailsOnlyOnThrow]_vars

\* both purchases succeeded and the second request's append was applied first
C4_Witness ==
  /\ Responded(1, 200) /\ Responded(2, 200)
  /\ body[1].courseId = body[2].courseId
  /\ body[1].userId # body[2].userId
  /\ Enrollments(courses, body[1].courseId)
       = << [userId |-> body[2].userId], [userId |-> body[1].userId] >>

\* C5: within one purchase the Transaction is persisted before the progress
\* record and before the enrollment: a request that has completed a progress
\* write or an enrollment append has completed its Transaction save, and the
\* transaction store holds a record under that Transaction's key.
C5_TransactionFirst ==
  \A r \in Requests :
    (written[r] \cap {"progress", "enrollment"} # {})
    => /\ "transaction" \in written[r]
       /\ TransactionKey(newTransaction[r]) \in DOMAIN transactions

\* a request has persisted its progress record after its transaction
C5_Witness ==
  \E r \in Requests :
    /\ written[r] = {"transaction", "progress"}
    /\ transactions[TransactionKey(newTransaction[r])] = newTransaction[r]
    /\ progress[ProgressKey(initialProgress[r])] = initialProgress[r]

\* the step in which an awaited write of request r fails
C6_FailureStep ==
  \A r \in Requests :
    (pc[r] \in {"saveTransaction", "saveProgress", "update"}
       /\ res'[r].status = 500 /\ written'[r] = written[r])
    => /\ res[r] = NoResponse
       /\ pc'[r] = "done"
       /\ UNCHANGED stores

C6_KeptState ==
  \A r \in Requests :
    /\ "transaction" \in written[r]
         => TransactionKey(newTransaction[r]) \in DOMAIN transactions
    /\ "progress" \in written[r]
         => ProgressKey(initialProgress[r]) \in DOMAIN progress
    /\ "enrollment" \in written[r]
         => \E i \in 1..Len(Enrollments(courses, body[r].courseId)) :
              Enrollments(courses, body[r].courseId)[i] = [userId |-> body[r].userId]

\* C6: when the Transaction save, the progress save or the enrollment append
\* fails, the caller gets one 500 response and nothing is rolled back: the
\* failing step leaves the three stores as they are, so the records of the
\* writes the request had completed are still stored.
C6_NoRollback ==
  /\ []C6_KeptState
  /\ [][C6_FailureStep]_vars

\* a purchase failed after its Transaction save: the Transaction is stored,
\* the progress record and the enrollment entry are missing
C6_Witness ==
  \E r \in Requests :
    /\ Responded(r, 500)
    /\ written[r] = {"transaction"}
    /\ transactions[TransactionKey(newTransaction[r])] = newTransaction[r]
    /\ ProgressKey(body[r]) \notin DOMAIN progress
    /\ Enrollments(courses, body[r].courseId) = << >>

C7_TransactionImmutableStep ==
  \A k \in DOMAIN transactions :
    k \in DOMAIN transactions' /\ transactions'[k] = transactions[k]

\* C7: a Transaction is immutable once created: no step changes or removes a
\* stored Transaction record, also not a later purchase that supplies the same
\* transactionId.
C7_TransactionImmutable == [][C7_TransactionImmutableStep]_vars

C8_ProgressCreatedOnceStep ==
  \A r \in Requests :
    (Leaves(r, "saveProgress") /\ "progress" \in written'[r])
    => /\ ProgressKey(initialProgress[r]) \notin DOMAIN progress
       /\ \A k \in DOMAIN progress : progress'[k] = progress[k]

\* C8: a UserCourseProgress record is created once per (userId, courseId):
\* no progress save of a purchase writes a key the progress store already
\* holds, so no stored progress record is replaced by a purchase.
C8_ProgressCreatedOnce == [][C8_ProgressCreatedOnceStep]_vars

\* C9: createStripePaymentIntent never rejects an amount: the gateway is
\* called for every request, with 50 when the amount is absent, zero or
\* negative and with the amount itself when it is positive, and a 500 is
\* answered only after the gateway call was made.
C9_AmountDefaulted ==
  pay.pc # "idle" =>
    /\ (pay.requested.type # "number" \/ pay.requested.value <= 0)
         => pay.amount = JsNumber(MinCharge)
    /\ (pay.requested.type = "number" /\ pay.requested.value > 0)
         => pay.amount = pay.requested
    /\ pay.pc = "done" => /\ pay.status \in {200, 500}
                          /\ pay.status = 200 => pay.intent = pay.amount

\* an intent for 50 was issued for a request with amount -5
C9_Witness ==
  /\ pay.pc = "done" /\ pay.status = 200
  /\ pay.requested = JsNumber(0 - 5)
  /\ pay.intent = JsNumber(50)

InFlight(r) == pc[r] \in Awaits

C10_HungStaysHung ==
  \A r \in Requests :
    pc[r] = "hung" => pc'[r] = "hung" /\ res'[r] = NoResponse

\* C10: requests are independent: a request whose downstream call never
\* returns stays suspended without a response, and every request in flight
\* eventually either answers or is itself suspended on a call that never
\* returns, whatever state the other requests are in.
C10_Independent ==
  /\ [][C10_HungStaysHung]_vars
  /\ \A r \in Requests : InFlight(r) ~> (pc[r] = "done" \/ pc[r] = "hung")
  /\ \A r \in Requests : [](pc[r] = "done" => res[r].status \in {200, 404, 500})

\* one request is suspended for good and the other has answered success
C10_Witness ==
  \E r, q \in Requests :
    /\ pc[r] = "hung" /\ res[r] = NoResponse
    /\ Responded(q, 200)
    /\ body[r].courseId = body[q].courseId

\* C11: the enrollment append is an idempotent set union: the enrollment
\* collection of a course never holds two entries for the same userId, so a
\* repeated purchase by the same user leaves it unchanged.
C11_OneEntryPerUser ==
  \A id \in DOMAIN courses :
    \A i, j \in 1..Len(Enrollments(courses, id)) :
      Enrollments(courses, id)[i].userId = Enrollments(courses, id)[j].userId
        => i = j

\* sequence a is an initial part of sequence b
IsPrefix(a, b) ==
  /\ Len(a) <= Len(b)
  /\ \A i \in 1..Len(a) : a[i] = b[i]

C12_EnrollmentsGrowStep ==
  \A id \in DOMAIN courses \cap DOMAIN courses' :
    IsPrefix(Enrollments(courses, id), Enrollments(courses', id))

\* C12: the enrollment collection of an existing Course only grows: while the
\* course stays in the catalog, no step of purchaseCourse or updateCourse
\* removes or replaces an entry of its enrollment collection.
C12_EnrollmentsGrow == [][C12_EnrollmentsGrowStep]_vars

\* the step in which request r completes a store write
Writes(r) == written'[r] # written[r]

C13_WritesOnlyForStoredCourseStep ==
  \A r \in Requests :
    Writes(r) => /\ body[r].courseId \in DOMAIN courses
                 /\ DOMAIN courses' = DOMAIN courses

\* C13: the course-existence guard prevents recording a purchase for a
\* non-existent course under every interleaving with deleteCourse: every
\* Transaction save, progress save and enrollment append is made for a course
\* that is in the catalog at that moment, and no append adds a course record.
C13_WritesOnlyForStoredCourse == [][C13_WritesOnlyForStoredCourseStep]_vars

\* the writes of createTransaction in program order
WriteOrder == << "transaction", "progress", "enrollment" >>

C14_AttemptsState ==
  \A r \in Requests :
    /\ IsPrefix(attempts[r], WriteOrder)
    /\ written[r] \subseteq { attempts[r][i] : i \in 1..Len(attempts[r]) }
    /\ Len(attempts[r]) <= Cardinality(written[r]) + 1
    /\ Responded(r, 500) /\ "transaction" \notin written[r]
         => written[r] = {} /\ Len(attempts[r]) <= 1
    /\ Responded(r, 500) /\ "progress" \notin written[r]
         => "enrollment" \notin written[r] /\ Len(attempts[r]) <= 2

C14_DoneIsFinal ==
  \A r \in Requests :
    pc[r] = "done" => /\ pc'[r] = "done"
                      /\ attempts'[r] = attempts[r]
                      /\ written'[r] = written[r]

\* C14: no retries and no continuation after a failure: a purchase issues its
\* Transaction save, progress save and enrollment append at most once each,
\* in that order, never has more than one issued write uncompleted, and once
\* it has answered it issues and completes nothing more; a failed Transaction
\* save leaves no progress or enrollment write of that call, a failed
\* progress save no enrollment write.
C14_NoRetryNoContinuation ==
  /\ []C14_AttemptsState
  /\ [][C14_DoneIsFinal]_vars

\* a purchase failed at its progress save: one Transaction save completed,
\* one progress save issued, no enrollment append issued
C14_Witness ==
  \E r \in Requests :
    /\ Responded(r, 500)
    /\ attempts[r] = << "transaction", "progress" >>
    /\ written[r] = {"transaction"}

\* the course has a product named after it and a price of price * 100 for
\* that product registered with the gateway
Purchasable(c) ==
  \E p \in products :
    /\ p.name = c.title
    /\ \E q \in prices : q.product = p.id /\ q.unit_amount = c.price * 100

\* C15: createCourse registers a matching product/price pair for every course
\* it creates: once a createCourse call has answered, a course record it
\* persisted has a product and a price (unit amount = price * 100) registered
\* with the gateway, and a call that answered with an error has left no
\* course record of its own in the catalog.
C15_CreatedCourseHasPrice ==
  (crt.pc = "done" /\ crt.persisted /\ crt.course.id \in DOMAIN courses)
  => /\ crt.status = 201
     /\ Purchasable(courses[crt.course.id])

\* every attribute of the patch is stored on the course with the patch's value
Carries(c, patch) ==
  \A f \in DOMAIN patch : f \in DOMAIN c /\ c[f] = patch[f]

C16_UpdateStep ==
  /\ (upd.pc = "write" /\ upd'.pc = "done" /\ upd'.status = 200)
       => /\ Carries(courses'[upd.courseId], upd.updates)
          /\ upd.file =>
               /\ ImageKey(upd.courseId) \in objects
               /\ \E p \in Patches : upd.updates = WithImageUrl(p, upd.courseId)
               /\ "imageUrl" \in DOMAIN courses'[upd.courseId]
               /\ courses'[upd.courseId].imageUrl = ImageUrl(upd.courseId)
          /\ ~upd.file => upd.updates \in Patches /\ objects = {}
  /\ (upd.pc = "upload" /\ upd'.pc = "done")
       => upd'.status = 500 /\ UNCHANGED << courses, objects >>
  /\ upd.pc = "upload" => upd'.pc \in {"upload", "write", "done"}
  /\ upd.pc = "done" => upd' = upd

C16_UpdateState ==
  /\ upd.pc = "upload" => upd.file /\ ImageKey(upd.courseId) \notin objects
  /\ (upd.pc # "idle" /\ ~upd.file) => objects = {}

\* C16: in updateCourse with an image attached the upload completes before
\* the catalog write, the write carries the image URL merged into the patch,
\* and a failed upload ends the call with 500 and no catalog write; without
\* an image the patch is written as it is and nothing is uploaded.
C16_UploadBeforeWrite ==
  /\ []C16_UpdateState
  /\ [][C16_UpdateStep]_vars

\* an update with an image has answered 200: the image is in the object
\* store and the course carries its URL
C16_Witness ==
  /\ upd.pc = "done" /\ upd.status = 200 /\ upd.file
  /\ ImageKey(upd.courseId) \in objects
  /\ upd.courseId \in DOMAIN courses
  /\ "imageUrl" \in DOMAIN courses[upd.courseId]
  /\ courses[upd.courseId].imageUrl = ImageUrl(upd.courseId)
  /\ Carries(courses[upd.courseId], [sections |-> SectionsB])

\* a stored Transaction of user u for course c
HasTransaction(u, c) ==
  \E k \in DOMAIN transactions :
    transactions[k].userId = u /\ transactions[k].courseId = c

\* a stored UserCourseProgress keyed (u, c)
HasProgress(u, c) ==
  \E k \in DOMAIN progress :
    progress[k].userId = u /\ progress[k].courseId = c

\* C17: enrollment implies proof of purchase: for every entry {userId} in the
\* enrollment collection of a course c there are a stored Transaction with
\* that userId and courseId c and a stored UserCourseProgress keyed
\* (userId, c).
C17_EnrollmentHasProof ==
  \A c \in DOMAIN courses :
    \A i \in 1..Len(Enrollments(courses, c)) :
      /\ HasTransaction(Enrollments(courses, c)[i].userId, c)
      /\ HasProgress(Enrollments(courses, c)[i].userId, c)

\* a response is sent exactly when the handler ends, and is one of the three
C18_ResponseState ==
  \A r \in Requests :
    /\ pc[r] = "done" <=> res[r] # NoResponse
    /\ pc[r] = "done" => res[r].status \in {200, 404, 500}
    /\ res[r].status = 404 => CourseNotFound(course[r]) /\ attempts[r] = << >>
    /\ res[r].status = 200 =>
         /\ written[r] = AllWrites
         /\ attempts[r] = WriteOrder
         /\ res[r].transaction = newTransaction[r]
         /\ res[r].courseProgress = initialProgress[r]
         /\ res[r].transaction.transactionId = body[r].transactionId
         /\ ProgressKey(res[r].courseProgress) = << body[r].userId, body[r].courseId >>

\* a response once sent is never replaced, and success is sent by the step
\* that completes the enrollment append
C18_ResponseStep ==
  \A r \in Requests :
    /\ res[r] # NoResponse => res'[r] = res[r]
    /\ (res[r] = NoResponse /\ res'[r].status = 200)
         => /\ pc[r] = "update"
            /\ written[r] = {"transaction", "progress"}
            /\ written'[r] = AllWrites
    /\ (res[r] = NoResponse /\ res'[r].status = 500)
         => pc[r] \in Awaits /\ written'[r] # AllWrites

\* C18: every purchase whose downstream calls each return or throw
\* eventually sends exactly one response, 404, 500 or success; the success
\* response carries the Transaction and the UserCourseProgress and is sent
\* only after the Transaction save, the progress save and the enrollment
\* append have all completed.
C18_OneResponse ==
  /\ []C18_ResponseState
  /\ [][C18_ResponseStep]_vars
  /\ \A r \in Requests :
       (pc[r] = "get") ~> (pc[r] = "hung" \/ res[r] # NoResponse)

\* one purchase has answered success with its two documents and another has
\* answered 500 after its Transaction save
C18_Witness ==
  \E r, q \in Requests :
    /\ Responded(r, 200) /\ Responded(q, 500)
    /\ written[q] = {"transaction"}
    /\ res[r].transaction.userId = body[r].userId
    /\ res[r].courseProgress.courseId = body[r].courseId

====
